---- MODULE Spec2Model ----
(***************************************************************************)
(* Model of src/agent.py: the validation gate and the single HTTP POST of  *)
(* GraphQLTool.execute_query, the shared module-level tool, and the        *)
(* process_query wrapper that hands a question to the agent executor.      *)
(*                                                                         *)
(* A query string is a sequence of one-character strings.  Each call of    *)
(* execute_query is a thread of control whose position is pc[c]; the       *)
(* statements of the method are the actions.                               *)
(***************************************************************************)
EXTENDS Integers, Sequences, FiniteSets

\* ------------------------------------------------------------------ bounds
MaxParts == 3          \* a query is a concatenation of at most MaxParts pieces
NThreads == 2          \* concurrent callers of the shared tool
NInvocations == 2      \* concurrent invocations of process_query

\* --------------------------------------------------------------- constants
MinLength == 10                                  \* len(query.strip()) < 10
InvalidChars == <<"<", ">", "!", "@", "#", "$", "%", "^", "&", "*">>
Whitespace == {" ", "\t", "\n", "\r", "\f"}      \* what str.strip() removes

UnbalancedMsg == "Invalid GraphQL query: Unbalanced braces"
TooShortMsg == "Invalid GraphQL query: Query is empty or too short"
InvalidCharsMsg == "Invalid GraphQL query: Contains invalid characters"

\* os.getenv("GRAPHQL_API_URL"): a URL, or None when the variable is unset
NoneUrl == "None"
JobsUrl == "https://jobs.example/graphql"
GRAPHQL_API_URL == {JobsUrl, NoneUrl}

\* ------------------------------------------------------------ input strings
PieceOpen == <<"{">>
PieceClose == <<"}">>
PieceSpace == <<" ", "\n">>
PieceJobs == <<"j", "o", "b", "s">>
PieceBlock == <<"{", " ", "i", "d", " ", "}">>
PieceFields == <<"t", "i", "t", "l", "e", " ", "s", "a", "l", "a", "r", "y">>
PieceBang == <<"!">>
PieceAt == <<"@">>
Pieces ==
    {PieceOpen, PieceClose, PieceSpace, PieceJobs, PieceBlock, PieceFields, PieceBang, PieceAt}

RECURSIVE Concats(_)
Concats(n) ==
    IF n = 0 THEN {<< >>}
    ELSE LET prev == Concats(n - 1) IN prev \cup {s \o p : s \in prev, p \in Pieces}

Queries == Concats(MaxParts)

\* the queries used when several callers share the tool
ConcQueries ==
    { PieceOpen,
      PieceOpen \o PieceJobs \o PieceClose,
      PieceFields \o PieceBang,
      PieceOpen \o PieceFields \o PieceClose }

\* --------------------------------------------------------- upstream answers
JobsBody == "{\"data\":{\"jobs\":[]}}"
NullBody == "null"
HtmlBody == "<html>Bad Gateway</html>"
EmptyBody == ""
Bodies == {JobsBody, NullBody, HtmlBody, EmptyBody}
Statuses == {200, 304, 404, 500}

NoResponse == [kind |-> "none", status |-> 0, body |-> "", error |-> ""]
HttpResponses == [kind : {"http"}, status : Statuses, body : Bodies, error : {""}]
TransportFailures ==
    [kind : {"failure"}, status : {0}, body : {""}, error : {"ConnectionError", "Timeout"}]
MissingSchema == [kind |-> "failure", status |-> 0, body |-> "", error |-> "MissingSchema"]

\* ----------------------------------------------------------- value domains
NoException == [cls |-> "", msg |-> ""]
ValueError(m) == [cls |-> "ValueError", msg |-> m]
NoRequest == [url |-> "", content_type |-> "", query |-> << >>]

Threads == 1 .. NThreads
MainThread == CHOOSE c \in Threads : \A d \in Threads : c <= d
Invocations == 1 .. NInvocations
Questions == {"top paying jobs in London", "remote jobs", "jobs in Paris", "any job"}

\* ------------------------------------------------------------------- state
VARIABLES
    api_url,      \* GraphQLTool.api_url of the module-level graphql_tool
    pc,           \* position of each call of execute_query
    query,        \* the argument of each call
    request,      \* the POST each call has handed to requests.post
    posts,        \* how many times each call has invoked requests.post
    response,     \* what requests.post produced for each call
    result,       \* << >> until the call returns; <<value>> once it has
    exc,          \* the exception the call has raised, if any
    pq_pc,        \* position of each invocation of process_query
    question,     \* the argument of each invocation
    agent_input,  \* << >>, or <<text>> once the prompt has been filled in
    pq_exc        \* the exception an invocation has raised, if any

toolVars == <<api_url, pc, query, request, posts, response, result, exc>>
pqVars == <<pq_pc, question, agent_input, pq_exc>>
vars == <<api_url, pc, query, request, posts, response, result, exc,
          pq_pc, question, agent_input, pq_exc>>

\* -------------------------------------------------- string helpers (Python)
RECURSIVE count(_, _)
count(s, ch) ==
    IF s = << >> THEN 0
    ELSE (IF Head(s) = ch THEN 1 ELSE 0) + count(Tail(s), ch)

RECURSIVE lstrip(_)
lstrip(s) ==
    IF s = << >> THEN s
    ELSE IF Head(s) \in Whitespace THEN lstrip(Tail(s)) ELSE s

RECURSIVE rstrip(_)
rstrip(s) ==
    IF s = << >> THEN s
    ELSE IF s[Len(s)] \in Whitespace THEN rstrip(SubSeq(s, 1, Len(s) - 1)) ELSE s

strip(s) == rstrip(lstrip(s))

contains(s, ch) == \E i \in 1 .. Len(s) : s[i] = ch

\* ------------------------------------------- the three checks, lines 26-37
UnbalancedBraces_sameChar(q) == count(q, "{") # count(q, "{")
UnbalancedBraces(q) == count(q, "{") # count(q, "}")

TooShortOrEmpty_below9(q) == strip(q) = << >> \/ Len(strip(q)) < MinLength - 1
TooShortOrEmpty(q) == strip(q) = << >> \/ Len(strip(q)) < MinLength

HasInvalidChars_noAt(q) ==
    \E i \in 1 .. Len(InvalidChars) : InvalidChars[i] # "@" /\ contains(q, InvalidChars[i])
HasInvalidChars(q) == \E i \in 1 .. Len(InvalidChars) : contains(q, InvalidChars[i])

\* payload = {"query": query}, headers = {"Content-Type": "application/json"}
BuildRequest_stripped(url, q) ==
    [url |-> url, content_type |-> "application/json", query |-> strip(q)]
BuildRequest(url, q) ==
    [url |-> url, content_type |-> "application/json", query |-> q]

\* Response.raise_for_status(): raises HTTPError for 4xx and 5xx only
StatusRaises_never(status) == FALSE
StatusRaises(status) == 400 <= status /\ status < 600

\* Response.json(): the decoded body, or a JSONDecodeError
JsonDecode(body) ==
    CASE body = JobsBody -> [ok |-> TRUE, type |-> "dict", content |-> "data: {jobs: []}"]
      [] body = NullBody -> [ok |-> TRUE, type |-> "NoneType", content |-> "None"]
      [] OTHER -> [ok |-> FALSE, type |-> "", content |-> ""]

JsonValue(body) == [type |-> JsonDecode(body).type, content |-> JsonDecode(body).content]

\* -------------------------------------------------------------------- Init
Init ==
    /\ api_url \in GRAPHQL_API_URL
    /\ pc = [c \in Threads |-> "idle"]
    /\ query = [c \in Threads |-> << >>]
    /\ request = [c \in Threads |-> NoRequest]
    /\ posts = [c \in Threads |-> 0]
    /\ response = [c \in Threads |-> NoResponse]
    /\ result = [c \in Threads |-> << >>]
    /\ exc = [c \in Threads |-> NoException]
    /\ pq_pc = [p \in Invocations |-> "idle"]
    /\ question = [p \in Invocations |-> ""]
    /\ agent_input = [p \in Invocations |-> << >>]
    /\ pq_exc = [p \in Invocations |-> NoException]

\* ------------------------------------------------ execute_query, lines 22-55
\* a caller (the agent's tool layer) enters execute_query(query)
Call(c, q) ==
    /\ pc[c] = "idle"
    /\ pc' = [pc EXCEPT ![c] = "check_braces"]
    /\ query' = [query EXCEPT ![c] = q]
    /\ UNCHANGED <<api_url, request, posts, response, result, exc, pqVars>>

\* the caller has taken the returned value or the exception; the frame is gone
Leave(c) ==
    /\ pc[c] = "done"
    /\ pc' = [pc EXCEPT ![c] = "idle"]
    /\ query' = [query EXCEPT ![c] = << >>]
    /\ request' = [request EXCEPT ![c] = NoRequest]
    /\ posts' = [posts EXCEPT ![c] = 0]
    /\ response' = [response EXCEPT ![c] = NoResponse]
    /\ result' = [result EXCEPT ![c] = << >>]
    /\ exc' = [exc EXCEPT ![c] = NoException]
    /\ UNCHANGED <<api_url, pqVars>>

\* lines 26-28
CheckBraces(c) ==
    /\ pc[c] = "check_braces"
    /\ IF UnbalancedBraces(query[c])
       THEN /\ exc' = [exc EXCEPT ![c] = ValueError(UnbalancedMsg)]
            /\ pc' = [pc EXCEPT ![c] = "done"]
       ELSE /\ pc' = [pc EXCEPT ![c] = "check_length"]
            /\ UNCHANGED exc
    /\ UNCHANGED <<api_url, query, request, posts, response, result, pqVars>>

\* lines 30-32, with the raise forgotten: the next check overrides the reason
CheckLength_noRaise(c) ==
    /\ pc[c] = "check_length"
    /\ pc' = [pc EXCEPT ![c] = "check_chars"]
    /\ exc' = [exc EXCEPT ![c] =
                 IF TooShortOrEmpty(query[c]) THEN ValueError(TooShortMsg) ELSE NoException]
    /\ UNCHANGED <<api_url, query, request, posts, response, result, pqVars>>

\* lines 30-32
CheckLength(c) ==
    /\ pc[c] = "check_length"
    /\ IF TooShortOrEmpty(query[c])
       THEN /\ exc' = [exc EXCEPT ![c] = ValueError(TooShortMsg)]
            /\ pc' = [pc EXCEPT ![c] = "done"]
       ELSE /\ pc' = [pc EXCEPT ![c] = "check_chars"]
            /\ UNCHANGED exc
    /\ UNCHANGED <<api_url, query, request, posts, response, result, pqVars>>

\* lines 35-37, with the raise forgotten: the error is recorded and the POST goes out
CheckChars_noRaise(c) ==
    /\ pc[c] = "check_chars"
    /\ pc' = [pc EXCEPT ![c] = "post"]
    /\ exc' = [exc EXCEPT ![c] =
                 IF HasInvalidChars(query[c]) THEN ValueError(InvalidCharsMsg) ELSE NoException]
    /\ UNCHANGED <<api_url, query, request, posts, response, result, pqVars>>

\* lines 35-37
CheckChars(c) ==
    /\ pc[c] = "check_chars"
    /\ IF HasInvalidChars(query[c])
       THEN /\ exc' = [exc EXCEPT ![c] = ValueError(InvalidCharsMsg)]
            /\ pc' = [pc EXCEPT ![c] = "done"]
       ELSE /\ pc' = [pc EXCEPT ![c] = "post"]
            /\ UNCHANGED exc
    /\ UNCHANGED <<api_url, query, request, posts, response, result, pqVars>>

\* what requests.post can produce for the configured endpoint
PostOutcomes(url) ==
    IF url = NoneUrl THEN {MissingSchema} ELSE HttpResponses \cup TransportFailures

\* lines 39-48: build headers and payload, requests.post(self.api_url, ...)
Post(c) ==
    /\ pc[c] = "post"
    /\ request' = [request EXCEPT ![c] = BuildRequest(api_url, query[c])]
    /\ posts' = [posts EXCEPT ![c] = @ + 1]
    /\ \E r \in PostOutcomes(api_url) :
          /\ response' = [response EXCEPT ![c] = r]
          /\ IF r.kind = "failure"
             THEN /\ exc' = [exc EXCEPT ![c] = [cls |-> r.error, msg |-> "request failed"]]
                  /\ pc' = [pc EXCEPT ![c] = "except"]
             ELSE /\ pc' = [pc EXCEPT ![c] = "raise_for_status"]
                  /\ UNCHANGED exc
    /\ UNCHANGED <<api_url, query, result, pqVars>>

\* line 49, retrying the POST once instead of raising
RaiseForStatus_retryOnce(c) ==
    /\ pc[c] = "raise_for_status"
    /\ IF StatusRaises(response[c].status)
       THEN IF posts[c] < 2
            THEN /\ pc' = [pc EXCEPT ![c] = "post"]
                 /\ UNCHANGED exc
            ELSE /\ exc' = [exc EXCEPT ![c] = [cls |-> "HTTPError", msg |-> "status error"]]
                 /\ pc' = [pc EXCEPT ![c] = "except"]
       ELSE /\ pc' = [pc EXCEPT ![c] = "json"]
            /\ UNCHANGED exc
    /\ UNCHANGED <<api_url, query, request, posts, response, result, pqVars>>

\* line 49: response.raise_for_status()
RaiseForStatus(c) ==
    /\ pc[c] = "raise_for_status"
    /\ IF StatusRaises(response[c].status)
       THEN /\ exc' = [exc EXCEPT ![c] = [cls |-> "HTTPError", msg |-> "status error"]]
            /\ pc' = [pc EXCEPT ![c] = "except"]
       ELSE /\ pc' = [pc EXCEPT ![c] = "json"]
            /\ UNCHANGED exc
    /\ UNCHANGED <<api_url, query, request, posts, response, result, pqVars>>

\* lines 50-52, decoding the most recent response the tool has seen on any thread
DecodeAndReturn_shared(c) ==
    /\ pc[c] = "json"
    /\ \E d \in Threads :
          /\ response[d].kind = "http"
          /\ IF JsonDecode(response[d].body).ok
             THEN /\ result' = [result EXCEPT ![c] = <<JsonValue(response[d].body)>>]
                  /\ pc' = [pc EXCEPT ![c] = "done"]
                  /\ UNCHANGED exc
             ELSE /\ exc' = [exc EXCEPT ![c] =
                              [cls |-> "JSONDecodeError", msg |-> "invalid JSON"]]
                  /\ pc' = [pc EXCEPT ![c] = "except"]
                  /\ UNCHANGED result
    /\ UNCHANGED <<api_url, query, request, posts, response, pqVars>>

\* lines 50-52: result = response.json(); return result
DecodeAndReturn(c) ==
    /\ pc[c] = "json"
    /\ IF JsonDecode(response[c].body).ok
       THEN /\ result' = [result EXCEPT ![c] = <<JsonValue(response[c].body)>>]
            /\ pc' = [pc EXCEPT ![c] = "done"]
            /\ UNCHANGED exc
       ELSE /\ exc' = [exc EXCEPT ![c] = [cls |-> "JSONDecodeError", msg |-> "invalid JSON"]]
            /\ pc' = [pc EXCEPT ![c] = "except"]
            /\ UNCHANGED result
    /\ UNCHANGED <<api_url, query, request, posts, response, pqVars>>

\* lines 53-55: except RequestException: log, then re-raise unchanged
Reraise(c) ==
    /\ pc[c] = "except"
    /\ pc' = [pc EXCEPT ![c] = "done"]
    /\ UNCHANGED <<api_url, query, request, posts, response, result, exc, pqVars>>

\* ------------------------------------------------ process_query, lines 137-140
\* lines 119-124: the variables the prompt's human message declares
PromptVariables == {"input"}

\* line 139: the mapping handed to agent_executor.ainvoke
InvokeInputs(text) == [k \in {"inputbat"} |-> text]

\* a caller awaits process_query(text)
ProcessQuery(p, text) ==
    /\ pq_pc[p] = "idle"
    /\ pq_pc' = [pq_pc EXCEPT ![p] = "create_agent"]
    /\ question' = [question EXCEPT ![p] = text]
    /\ UNCHANGED <<toolVars, agent_input, pq_exc>>

\* the awaiting caller has taken the answer or the exception
LeaveProcessQuery(p) ==
    /\ pq_pc[p] = "done"
    /\ pq_pc' = [pq_pc EXCEPT ![p] = "idle"]
    /\ question' = [question EXCEPT ![p] = ""]
    /\ agent_input' = [agent_input EXCEPT ![p] = << >>]
    /\ pq_exc' = [pq_exc EXCEPT ![p] = NoException]
    /\ UNCHANGED toolVars

\* line 138: agent_executor = create_agent()
CreateAgent(p) ==
    /\ pq_pc[p] = "create_agent"
    /\ pq_pc' = [pq_pc EXCEPT ![p] = "ainvoke"]
    /\ UNCHANGED <<toolVars, question, agent_input, pq_exc>>

\* lines 139-140: the executor fills the prompt from the mapping it is given;
\* a declared variable the mapping lacks makes the invocation raise
Ainvoke(p) ==
    /\ pq_pc[p] = "ainvoke"
    /\ LET inputs == InvokeInputs(question[p]) IN
          IF PromptVariables \subseteq DOMAIN inputs
          THEN /\ agent_input' = [agent_input EXCEPT ![p] = <<inputs["input"]>>]
               /\ UNCHANGED pq_exc
          ELSE /\ pq_exc' = [pq_exc EXCEPT ![p] =
                                [cls |-> "ValueError", msg |-> "Missing some input keys"]]
               /\ UNCHANGED agent_input
    /\ pq_pc' = [pq_pc EXCEPT ![p] = "done"]
    /\ UNCHANGED <<toolVars, question>>

\* ---------------------------------------------------------- specifications
ToolStep(c, Q) ==
    \/ \E q \in Q : Call(c, q)
    \/ CheckBraces(c)
    \/ CheckLength(c)
    \/ CheckChars(c)
    \/ Post(c)
    \/ RaiseForStatus(c)
    \/ DecodeAndReturn(c)
    \/ Reraise(c)
    \/ Leave(c)

\* one caller, calling the tool again and again with any query
Next == ToolStep(MainThread, Queries)
Spec == Init /\ [][Next]_vars

\* several callers sharing the module-level tool
NextConc == \E c \in Threads : ToolStep(c, ConcQueries)
SpecConc == Init /\ [][NextConc]_vars

\* concurrent invocations of process_query
NextPQ ==
    \E p \in Invocations :
        \/ \E text \in Questions : ProcessQuery(p, text)
        \/ CreateAgent(p)
        \/ Ainvoke(p)
        \/ LeaveProcessQuery(p)
SpecPQ == Init /\ [][NextPQ]_vars

\* ------------------------------------------- the vocabulary of the properties
Occurrences(q, ch) == Cardinality({i \in 1 .. Len(q) : q[i] = ch})
Balanced(q) == Occurrences(q, "{") = Occurrences(q, "}")

NonSpace(q) == {i \in 1 .. Len(q) : q[i] \notin {" ", "\t", "\n", "\r", "\f"}}
TrimmedLength(q) ==
    IF NonSpace(q) = {} THEN 0
    ELSE LET first == CHOOSE i \in NonSpace(q) : \A j \in NonSpace(q) : i <= j
             last == CHOOSE i \in NonSpace(q) : \A j \in NonSpace(q) : j <= i
         IN last - first + 1

Disallowed == {"<", ">", "!", "@", "#", "$", "%", "^", "&", "*"}
HasDisallowed(q) == \E i \in 1 .. Len(q) : q[i] \in Disallowed

WellFormed(q) == Balanced(q) /\ TrimmedLength(q) >= 10 /\ ~HasDisallowed(q)

Finished(c) == pc[c] = "done"
ValidationMsgs == {UnbalancedMsg, TooShortMsg, InvalidCharsMsg}
Rejected(c) == exc[c].cls = "ValueError" /\ exc[c].msg \in ValidationMsgs
RejectedWith(c, m) == exc[c] = ValueError(m) /\ result[c] = << >>

TypeOK ==
    /\ api_url \in GRAPHQL_API_URL
    /\ pc \in [Threads -> {"idle", "check_braces", "check_length", "check_chars", "post",
                           "raise_for_status", "json", "except", "done"}]
    /\ posts \in [Threads -> Nat]
    /\ pq_pc \in [Invocations -> {"idle", "create_agent", "ainvoke", "done"}]

\* --------------------------------------------------------------------- C1
\* C1: every query whose number of '{' differs from its number of '}' is
\* rejected with the "Unbalanced braces" ValueError, whatever its length and
\* whatever other characters it contains.
C1_UnbalancedRejected ==
    \A c \in Threads :
        (Finished(c) /\ ~Balanced(query[c])) => RejectedWith(c, UnbalancedMsg)

C1_Witness ==
    \E c \in Threads :
        /\ Finished(c) /\ ~Balanced(query[c])
        /\ TrimmedLength(query[c]) >= 10 /\ HasDisallowed(query[c])
        /\ RejectedWith(c, UnbalancedMsg)

\* --------------------------------------------------------------------- C2
\* C2 as stated: every query whose trimmed length is below 10 is rejected with
\* the "empty or too short" ValueError.
C2_Original ==
    \A c \in Threads :
        (Finished(c) /\ TrimmedLength(query[c]) < 10) => RejectedWith(c, TooShortMsg)

\* C2 amended: every brace-balanced query whose trimmed length is below 10
\* (the empty and the whitespace-only string included) is rejected with the
\* "empty or too short" ValueError.
C2_BalancedShortRejected ==
    \A c \in Threads :
        (Finished(c) /\ Balanced(query[c]) /\ TrimmedLength(query[c]) < 10)
            => RejectedWith(c, TooShortMsg)

C2_Witness ==
    \E c \in Threads :
        /\ Finished(c) /\ Balanced(query[c])
        /\ TrimmedLength(query[c]) > 0 /\ Len(query[c]) >= 10
        /\ RejectedWith(c, TooShortMsg)

\* --------------------------------------------------------------------- C3
\* C3 as stated: every query that contains one of < > ! @ # $ % ^ & * is
\* rejected with the "Contains invalid characters" ValueError.
C3_Original ==
    \A c \in Threads :
        (Finished(c) /\ HasDisallowed(query[c])) => RejectedWith(c, InvalidCharsMsg)

\* C3 amended: every brace-balanced query of trimmed length at least 10 that
\* contains one of < > ! @ # $ % ^ & * is rejected with the "Contains invalid
\* characters" ValueError.
C3_WellSizedDisallowedRejected ==
    \A c \in Threads :
        (/\ Finished(c) /\ Balanced(query[c]) /\ TrimmedLength(query[c]) >= 10
         /\ HasDisallowed(query[c]))
            => RejectedWith(c, InvalidCharsMsg)

C3_Witness ==
    \E c \in Threads :
        /\ Finished(c) /\ Balanced(query[c]) /\ TrimmedLength(query[c]) >= 10
        /\ Occurrences(query[c], "@") > 0 /\ Occurrences(query[c], "!") = 0
        /\ RejectedWith(c, InvalidCharsMsg)

\* --------------------------------------------------------------------- C4
\* C4: a finished call was let through the gate exactly when its query has
\* equal brace counts, trimmed length at least 10 and no disallowed character,
\* and the "query" field of the POST body it sent is the raw string it was
\* given, sent to the tool's endpoint as JSON.
C4_AcceptedIffWellFormed ==
    \A c \in Threads :
        Finished(c) =>
            /\ ~Rejected(c) <=> WellFormed(query[c])
            /\ ~Rejected(c) =>
                  /\ request[c].query = query[c]
                  /\ request[c].url = api_url
                  /\ request[c].content_type = "application/json"

C4_Witness ==
    \E c \in Threads :
        /\ Finished(c) /\ ~Rejected(c) /\ WellFormed(query[c])
        /\ TrimmedLength(query[c]) < Len(query[c])
        /\ request[c].query = query[c]

\* --------------------------------------------------------------------- C5
\* C5: a call that has issued a POST has a query that passes all three
\* checks, and a call rejected by validation has issued no POST and has
\* neither a request nor a response.
C5_NoPostWhenRejected ==
    \A c \in Threads :
        /\ (posts[c] > 0 \/ request[c] # NoRequest \/ response[c] # NoResponse)
              => (WellFormed(query[c]) /\ ~Rejected(c))
        /\ Rejected(c) => (posts[c] = 0 /\ request[c] = NoRequest /\ response[c] = NoResponse)

C5_Witness ==
    \E c \in Threads :
        /\ Finished(c) /\ RejectedWith(c, InvalidCharsMsg) /\ posts[c] = 0
        /\ api_url = JobsUrl

\* --------------------------------------------------------------------- C6
FirstFailure(q) ==
    IF ~Balanced(q) THEN UnbalancedMsg
    ELSE IF TrimmedLength(q) < 10 THEN TooShortMsg
    ELSE IF HasDisallowed(q) THEN InvalidCharsMsg
    ELSE ""

\* C6: the checks run in the order brace balance, trimmed length, disallowed
\* characters: a call reaches a check only after the earlier ones passed, and
\* a rejected call carries the reason of the earliest failing check and no
\* other.
C6_FirstFailureWins ==
    \A c \in Threads :
        /\ pc[c] = "check_length" => Balanced(query[c])
        /\ pc[c] = "check_chars" => (Balanced(query[c]) /\ TrimmedLength(query[c]) >= 10)
        /\ Finished(c) =>
              /\ Rejected(c) => exc[c].msg = FirstFailure(query[c])
              /\ FirstFailure(query[c]) # "" => exc[c] = ValueError(FirstFailure(query[c]))

C6_Witness ==
    \E c \in Threads :
        /\ Finished(c) /\ Balanced(query[c]) /\ TrimmedLength(query[c]) < 10
        /\ HasDisallowed(query[c])
        /\ exc[c] = ValueError(TooShortMsg)

\* --------------------------------------------------------------------- C7
ValidJsonBodies == {JobsBody, NullBody}
TransportClasses == {"HTTPError", "ConnectionError", "Timeout", "MissingSchema"}
Answered(c) == Finished(c) /\ response[c].kind = "http"

C8_SinglePost ==
    \A c \in Threads :
        /\ posts[c] <= 1
        /\ (Finished(c) /\ WellFormed(query[c]))
              => (posts[c] = 1 /\ request[c].url = api_url)
        /\ Finished(c) => ((result[c] # << >>) # (exc[c] # NoException))

C8_Witness ==
    \E c \in Threads :
        /\ Finished(c) /\ WellFormed(query[c]) /\ posts[c] = 1
        /\ response[c].kind = "http" /\ response[c].status = 404
        /\ exc[c].cls = "HTTPError"

\* --------------------------------------------------------------------- C9
ExpectedException(q, r) ==
    IF FirstFailure(q) # "" THEN ValueError(FirstFailure(q))
    ELSE IF r.kind = "failure" THEN [cls |-> r.error, msg |-> "request failed"]
    ELSE IF r.status \in 400 .. 599 THEN [cls |-> "HTTPError", msg |-> "status error"]
    ELSE IF r.body \notin ValidJsonBodies
         THEN [cls |-> "JSONDecodeError", msg |-> "invalid JSON"]
    ELSE NoException

ExpectedResult(q, r) ==
    IF ExpectedException(q, r) # NoException THEN << >>
    ELSE IF r.body = JobsBody THEN <<[type |-> "dict", content |-> "data: {jobs: []}"]>>
    ELSE <<[type |-> "NoneType", content |-> "None"]>>

OutcomeIsOwn ==
    \A c \in Threads :
        Finished(c) =>
            /\ exc[c] = ExpectedException(query[c], response[c])
            /\ result[c] = ExpectedResult(query[c], response[c])

\* C9: under any interleaving of calls on the shared tool, no step changes the
\* tool's api_url, and the outcome of every finished call is the function of
\* its own query and of the answer to its own POST.
C9_CallsIndependent == [][api_url' = api_url]_vars /\ []OutcomeIsOwn

C9_Witness ==
    \E c, d \in Threads :
        /\ c # d /\ Finished(c) /\ Finished(d)
        /\ query[c] = query[d] /\ WellFormed(query[c])
        /\ result[c] # << >> /\ exc[d].cls = "JSONDecodeError"

\* -------------------------------------------------------------------- C10
\* C10: every invocation of process_query that has finished has handed its
\* question to the agent under the prompt's variable and has raised nothing.
C10_QuestionReachesAgent ==
    \A p \in Invocations :
        pq_pc[p] = "done" => (agent_input[p] = <<question[p]>> /\ pq_exc[p] = NoException)

====
